---- MODULE Spec2Model ----
(***************************************************************************)
(* cleanVm: consistency check, repair and chain merge of one VM backup     *)
(* directory (@xen-orchestra/backups, _cleanVm.js).                        *)
(*                                                                         *)
(* The storage (disk files, alias targets, merge markers, metadata         *)
(* records, archives) is the persistent state; one cleanVm invocation      *)
(* walks through its stages, one action per handler of the code.           *)
(***************************************************************************)
EXTENDS Integers, Sequences, FiniteSets, TLC

\* ---------------------------------------------------------------- bounds
NumDisks == 3
NumBlocks == 2
NumTargets == 1
NumJsons == 2
NumXvas == 1
MaxRuns == 2
MaxOther == 2

\* limitConcurrency(1): the cap of the default merge limiter
MergeLimit == 1

Disks == 1..NumDisks
\* a path of the vdi directory at which no file exists
Gone == NumDisks + 1
\* header without parent (not a differencing disk); also JS undefined in a chain
NoParent == 0
Undef == 0
Blocks == 1..NumBlocks
Targets == 1..NumTargets
\* an alias target whose name is not the name of a disk file
NonVhd == NumTargets + 1
Jsons == 1..NumJsons
Xvas == 1..NumXvas
\* an archive path at which no file exists
NoXva == NumXvas + 1
\* the size of an archive file
XvaSize == 1

VARIABLES
    \* ---- storage
    disk,       \* disk path -> the file at that path (header, footer, blocks)
    data,       \* alias target (data location) -> whether the file exists
    markers,    \* disk paths that have an interrupted-merge marker file
    json,       \* metadata path -> the metadata file
    xva,        \* the archive files that exist
    xvaSum,     \* the archives whose checksum file exists
    \* ---- arguments of the invocation
    remove, merge, fixMetadata,
    \* ---- the invocation
    pc, runNo, toOpen,
    vhds, interruptedVhds, vhdParents, vhdChildren, vhdById,
    jsons, jsonsTodo, xvas, xvaSums, unusedVhds, unusedXvas, vhdsToJSons,
    suspectXvas,    \* the archives reported as 'XVA might be broken'
    toMerge, mergePc, unusedVhdsDeletion, xvaTodo, sumTodo,
    metadataWithMergedVhd, sizeTodo,
    \* ---- other invocations sharing the default limiter
    other,
    \* ---- history
    calls,      \* the mutating storage calls issued by the current invocation
    fs0         \* the storage when the current invocation started

storage == <<disk, data, markers, json, xva, xvaSum>>
flags == <<remove, merge, fixMetadata>>
graph == <<vhds, interruptedVhds, vhdParents, vhdChildren, vhdById>>
meta == <<jsons, jsonsTodo, xvas, xvaSums, unusedVhds, unusedXvas, vhdsToJSons, suspectXvas>>
exec == <<toMerge, mergePc, unusedVhdsDeletion, xvaTodo, sumTodo, metadataWithMergedVhd, sizeTodo>>
vars == <<storage, flags, pc, runNo, toOpen, graph, meta, exec, other, calls, fs0>>

\* ---------------------------------------------------------------- helpers
RECURSIVE SumOver(_, _)
SumOver(f, S) ==
    IF S = {} THEN 0
    ELSE LET x == CHOOSE y \in S : TRUE IN f[x] + SumOver(f, S \ {x})

\* the elements of a set of paths in listing order (ascending)
RECURSIVE Sorted(_)
Sorted(S) ==
    IF S = {} THEN <<>>
    ELSE LET m == CHOOSE x \in S : \A y \in S : x <= y IN <<m>> \o Sorted(S \ {m})

Range(s) == {s[i] : i \in 1..Len(s)}

\* an ordered map (a JS object with string keys): a sequence of <<key, value>>
HasKey(m, k) == \E i \in 1..Len(m) : m[i][1] = k
Get(m, k) == LET i == CHOOSE i \in 1..Len(m) : m[i][1] = k IN m[i][2]
Put(m, k, v) ==
    IF HasKey(m, k) THEN [i \in 1..Len(m) |-> IF m[i][1] = k THEN <<k, v>> ELSE m[i]]
    ELSE Append(m, <<k, v>>)
Del(m, k) == SelectSeq(m, LAMBDA e : e[1] # k)
Keys(m) == {m[i][1] : i \in 1..Len(m)}

NoFile ==
    [exists |-> FALSE, parent |-> NoParent, uuid |-> 0, blocks |-> [b \in Blocks |-> 0],
     health |-> "ok", alias |-> 0, dir |-> FALSE]

NoJson == [exists |-> FALSE, mode |-> "delta", vhds |-> {}, xva |-> NoXva, size |-> 0]

Exists(p) == p \in Disks /\ disk[p].exists

\* vhd.getSize(): the allocated blocks
SizeOf(d) == Cardinality({b \in Blocks : d.blocks[b] # 0})


\* ---------------------------------------------------------------- disk codec
\* openVhd(handler, path, { checkSecondFooter }): "ok", or how the open fails:
\* "assert" is a structural failure (error.code = ERR_ASSERTION), "io" a
\* transient I/O failure, "enoent" a missing file (or a missing alias target)
openVhd(d, dat, path, checkSecondFooter) ==
    IF ~(path \in Disks /\ d[path].exists) THEN "enoent"
    ELSE IF d[path].alias # 0 /\ ~dat[d[path].alias] THEN "enoent"
    ELSE IF d[path].health = "broken" THEN "assert"
    ELSE IF d[path].health = "footer2" /\ checkSecondFooter THEN "assert"
    ELSE IF d[path].health = "io" THEN "io"
    ELSE "ok"

\* a.containsAllDataOf(b): every block of b is in a, with the same data
containsAllDataOf(a, b) ==
    \A blk \in Blocks : b.blocks[blk] # 0 => a.blocks[blk] = b.blocks[blk]

\* VhdAbstract.unlink(handler, path) on each path of S
UnlinkAll(d, S) == [p \in Disks |-> IF p \in S THEN NoFile ELSE d[p]]

UnlinkCalls(kind, S) == {<<"unlink", kind, p>> : p \in S}

\* ---------------------------------------------------------------- listVhds
\* the alias files listVhds found: aliases[vdiDir]
aliases == {p \in Disks : fs0.disk[p].exists /\ fs0.disk[p].alias # 0}

EmptyRun ==
    /\ toOpen = {} /\ vhds = {} /\ interruptedVhds = {}
    /\ vhdParents = <<>>
    /\ vhdChildren = [p \in Disks \cup {Gone} |-> Undef]
    /\ vhdById = [u \in 1..NumDisks |-> Undef]
    /\ jsons = {} /\ jsonsTodo = {} /\ xvas = {} /\ xvaSums = {}
    /\ unusedVhds = {} /\ unusedXvas = {} /\ suspectXvas = {}
    /\ vhdsToJSons = [p \in Disks \cup {Gone} |-> Undef]
    /\ toMerge = <<>> /\ mergePc = <<>> /\ unusedVhdsDeletion = {}
    /\ xvaTodo = {} /\ sumTodo = {}
    /\ metadataWithMergedVhd = {} /\ sizeTodo = {}
    /\ calls = {}

ListVhds ==
    /\ pc = "list"
    /\ vhds' = {p \in Disks : disk[p].exists}
    /\ toOpen' = {p \in Disks : disk[p].exists}
    /\ interruptedVhds' = markers
    /\ pc' = "check"
    /\ UNCHANGED <<storage, flags, runNo, vhdParents, vhdChildren, vhdById, meta, exec,
                   other, calls, fs0>>

\* ---------------------------------------------------------------- remove broken VHDs
\* the body of the asyncMap over vhds: one disk is opened and registered
CheckVhd(path) ==
    /\ pc = "check"
    /\ path \in toOpen
    /\ toOpen' = toOpen \ {path}
    /\ LET res == openVhd(disk, data, path, path \notin interruptedVhds)
           vhd == disk[path]
           differencing == vhd.parent # NoParent
           duplicate == vhdById[vhd.uuid]
       IN  IF res = "ok" THEN
               /\ vhdParents' = IF differencing THEN Put(vhdParents, path, vhd.parent)
                                ELSE vhdParents
               /\ IF differencing /\ vhdChildren[vhd.parent] # Undef
                  THEN \* throw: the catch drops the disk, error.code is not ERR_ASSERTION
                       /\ vhds' = vhds \ {path}
                       /\ UNCHANGED <<vhdChildren, vhdById>>
                  ELSE /\ vhdChildren' = IF differencing
                                         THEN [vhdChildren EXCEPT ![vhd.parent] = path]
                                         ELSE vhdChildren
                       /\ IF duplicate = Undef
                          THEN /\ vhds' = vhds
                               /\ vhdById' = [vhdById EXCEPT ![vhd.uuid] = path]
                          ELSE IF containsAllDataOf(disk[duplicate], vhd)
                          THEN /\ vhds' = vhds \ {path}
                               /\ vhdById' = vhdById
                          ELSE IF containsAllDataOf(vhd, disk[duplicate])
                          THEN /\ vhds' = vhds \ {duplicate}
                               /\ vhdById' = [vhdById EXCEPT ![vhd.uuid] = path]
                          ELSE /\ vhds' = vhds
                               /\ vhdById' = [vhdById EXCEPT ![vhd.uuid] = path]
               /\ UNCHANGED <<disk, calls>>
           ELSE
               /\ vhds' = vhds \ {path}
               /\ IF res = "assert" /\ remove
                  THEN /\ disk' = UnlinkAll(disk, {path})
                       /\ calls' = calls \cup UnlinkCalls("vhd", {path})
                  ELSE UNCHANGED <<disk, calls>>
               /\ UNCHANGED <<vhdParents, vhdChildren, vhdById>>
    /\ UNCHANGED <<data, markers, json, xva, xvaSum, flags, pc, runNo, interruptedVhds,
                   meta, exec, other, fs0>>

\* every handler of the asyncMap has settled
CheckDone ==
    /\ pc = "check"
    /\ toOpen = {}
    /\ pc' = "states"
    /\ UNCHANGED <<storage, flags, runNo, toOpen, graph, meta, exec, other, calls, fs0>>

\* ---------------------------------------------------------------- orphan merge states
RemoveOrphanMergeStates ==
    /\ pc = "states"
    /\ interruptedVhds' = interruptedVhds \cap vhds
    /\ IF remove
       THEN /\ markers' = markers \ (interruptedVhds \ vhds)
            /\ calls' = calls \cup UnlinkCalls("state", interruptedVhds \ vhds)
       ELSE UNCHANGED <<markers, calls>>
    /\ pc' = "aliases"
    /\ UNCHANGED <<disk, data, json, xva, xvaSum, flags, runNo, toOpen, vhds, vhdParents,
                   vhdChildren, vhdById, meta, exec, other, fs0>>


\* ---------------------------------------------------------------- checkAliases
\* the for loop over aliasPaths; st = [disk, data, found, calls, threw]
RECURSIVE checkAliasLoop(_, _)
checkAliasLoop(st, todo) ==
    IF todo = <<>> \/ st.threw THEN st
    ELSE LET alias == Head(todo)
             target == st.disk[alias].alias
         IN  IF ~st.disk[alias].exists
             THEN \* resolveVhdAlias reads the alias file: it rejects
                  [st EXCEPT !.threw = TRUE]
             ELSE IF target = NonVhd
             THEN checkAliasLoop(
                      IF remove
                      THEN [st EXCEPT !.data[target] = FALSE, !.disk[alias] = NoFile,
                                      !.calls = @ \cup {<<"unlink", "data", target>>,
                                                        <<"unlink", "vhd", alias>>}]
                      ELSE st, Tail(todo))
             ELSE IF openVhd(st.disk, st.data, alias, TRUE) # "ok"
             THEN checkAliasLoop(
                      IF remove
                      THEN [st EXCEPT !.disk[alias] = NoFile,
                                      !.calls = @ \cup {<<"unlink", "vhd", alias>>}]
                      ELSE st, Tail(todo))
             ELSE checkAliasLoop([st EXCEPT !.found = @ \cup {target}], Tail(todo))

\* checkAliases(aliasPaths, targetDataRepository, { remove }): the loop, then the
\* pass over the data location
checkAliases(aliasPaths) ==
    LET st == checkAliasLoop([disk |-> disk, data |-> data, found |-> {}, calls |-> calls,
                              threw |-> FALSE], Sorted(aliasPaths))
        noAlias == {t \in Targets : st.data[t] /\ t \notin st.found}
    IN  IF st.threw \/ ~remove THEN st
        ELSE [st EXCEPT !.data = [t \in DOMAIN st.data |-> st.data[t] /\ t \notin noAlias],
                        !.calls = @ \cup UnlinkCalls("data", noAlias)]

CheckAliases ==
    /\ pc = "aliases"
    /\ LET st == checkAliases(aliases)
       IN  /\ disk' = st.disk
           /\ data' = st.data
           /\ calls' = st.calls
           /\ pc' = IF st.threw THEN "threw" ELSE "orphans"
    /\ UNCHANGED <<markers, json, xva, xvaSum, flags, runNo, toOpen, graph, meta, exec,
                   other, fs0>>

\* ---------------------------------------------------------------- remove VHDs with missing ancestors
\* st = [vhdParents, vhds, deletions, visits, overflow]: visits counts, for each
\* disk, the calls that got past the early return; fuel bounds the depth of the
\* recursion, which the JS stack bounds (RangeError)
markVisitedNever(parents, vhdPath) == parents

\* no longer needs to be checked: delete vhdParents[vhdPath]
markVisited(parents, vhdPath) == Del(parents, vhdPath)

RECURSIVE deleteIfOrphan(_, _, _)
deleteIfOrphan(st, vhdPath, fuel) ==
    IF fuel = 0 THEN [st EXCEPT !.overflow = TRUE]
    ELSE IF ~HasKey(st.vhdParents, vhdPath) THEN st
    ELSE LET parent == Get(st.vhdParents, vhdPath)
             st1 == deleteIfOrphan([st EXCEPT !.vhdParents = markVisited(@, vhdPath),
                                              !.visits[vhdPath] = @ + 1],
                                   parent, fuel - 1)
         IN  IF st1.overflow THEN st1
             ELSE IF parent \notin st1.vhds
             THEN [st1 EXCEPT !.vhds = @ \ {vhdPath},
                              !.deletions = IF remove THEN @ \cup {vhdPath} ELSE @]
             ELSE st1

\* for (const child in vhdParents): a key deleted before it is visited is skipped
RECURSIVE orphanLoop(_, _)
orphanLoop(st, keys) ==
    IF keys = <<>> \/ st.overflow THEN st
    ELSE orphanLoop(deleteIfOrphan(st, Head(keys), NumDisks + 1), Tail(keys))

\* the walk over the parent map, its keys taken in the given order
orphanWalk(keys) ==
    orphanLoop([vhdParents |-> vhdParents, vhds |-> vhds, deletions |-> {},
                visits |-> [d \in Disks |-> 0], overflow |-> FALSE], keys)

RemoveOrphans ==
    /\ pc = "orphans"
    /\ LET st == orphanWalk([i \in 1..Len(vhdParents) |-> vhdParents[i][1]])
       IN  /\ vhds' = st.vhds
           /\ vhdParents' = st.vhdParents
           /\ disk' = UnlinkAll(disk, st.deletions)
           /\ calls' = calls \cup UnlinkCalls("vhd", st.deletions)
           /\ pc' = IF st.overflow THEN "threw" ELSE "entries"
    /\ UNCHANGED <<data, markers, json, xva, xvaSum, flags, runNo, toOpen, interruptedVhds,
                   vhdChildren, vhdById, meta, exec, other, fs0>>

\* ---------------------------------------------------------------- list the directory
ListEntries ==
    /\ pc = "entries"
    /\ jsons' = {j \in Jsons : json[j].exists}
    /\ jsonsTodo' = {j \in Jsons : json[j].exists}
    /\ xvas' = xva
    /\ xvaSums' = xvaSum
    /\ unusedVhds' = vhds
    /\ unusedXvas' = xva
    \* isValidXva is a best-effort probe: any archive may fail it, and is reported
    /\ \E invalid \in SUBSET xva : suspectXvas' = invalid
    /\ pc' = "metadata"
    /\ UNCHANGED <<storage, flags, runNo, toOpen, graph, vhdsToJSons, exec, other, calls, fs0>>

\* ---------------------------------------------------------------- unused XVAs and VHDs
missingVhdsNone(linkedVhds) == {}

\* const missingVhds = linkedVhds.filter(_ => !vhds.has(_))
missingVhds(linkedVhds) == linkedVhds \ vhds

\* the body of the asyncMap over jsons
CheckMetadata(j) ==
    /\ pc = "metadata"
    /\ j \in jsonsTodo
    /\ jsonsTodo' = jsonsTodo \ {j}
    /\ LET metadata == json[j]
           linkedVhds == metadata.vhds
           incomplete == \/ metadata.mode = "full" /\ metadata.xva \notin xvas
                         \/ metadata.mode = "delta" /\ missingVhds(linkedVhds) # {}
       IN  /\ jsons' = IF \/ ~metadata.exists
                          \/ metadata.mode = "bad"
                          \/ incomplete /\ remove
                       THEN jsons \ {j} ELSE jsons
           /\ IF metadata.exists /\ incomplete /\ remove
              THEN /\ json' = [json EXCEPT ![j] = NoJson]
                   /\ calls' = calls \cup {<<"unlink", "json", j>>}
              ELSE UNCHANGED <<json, calls>>
           /\ unusedXvas' = IF metadata.exists /\ metadata.mode = "full"
                            THEN unusedXvas \ {metadata.xva} ELSE unusedXvas
           /\ IF metadata.exists /\ metadata.mode = "delta" /\ ~incomplete
              THEN /\ unusedVhds' = unusedVhds \ linkedVhds
                   /\ vhdsToJSons' = [p \in DOMAIN vhdsToJSons |->
                                         IF p \in linkedVhds THEN j ELSE vhdsToJSons[p]]
              ELSE UNCHANGED <<unusedVhds, vhdsToJSons>>
    /\ UNCHANGED <<disk, data, markers, xva, xvaSum, flags, pc, runNo, toOpen, graph, xvas,
                   xvaSums, suspectXvas, exec, other, fs0>>


CheckMetadataDone ==
    /\ pc = "metadata"
    /\ jsonsTodo = {}
    /\ pc' = "chains"
    /\ UNCHANGED <<storage, flags, runNo, toOpen, graph, meta, exec, other, calls, fs0>>

\* ---------------------------------------------------------------- VHD chains to merge
\* st = [chains, toCheck, deletions, overflow, ret]: chains is vhdChainsToMerge, a
\* chain that is undefined is <<>>, ret is the returned chain; fuel bounds the depth
\* of the recursion, which the JS stack bounds (RangeError)
RECURSIVE getUsedChildChainOrDelete(_, _, _)
getUsedChildChainOrDelete(st, vhd, fuel) ==
    IF fuel = 0 THEN [st EXCEPT !.overflow = TRUE]
    ELSE IF HasKey(st.chains, vhd)
    THEN [st EXCEPT !.chains = Del(@, vhd), !.ret = Get(st.chains, vhd)]
    ELSE IF vhd \notin unusedVhds
    THEN [st EXCEPT !.ret = <<vhd>>]
    ELSE LET st1 == [st EXCEPT !.toCheck = @ \ {vhd}]
             child == vhdChildren[vhd]
             sub == IF child # Undef
                    THEN getUsedChildChainOrDelete(st1, child, fuel - 1)
                    ELSE [st1 EXCEPT !.ret = <<>>]
         IN  IF sub.overflow THEN sub
             ELSE IF sub.ret # <<>>
             THEN [sub EXCEPT !.ret = <<vhd>> \o sub.ret]
             ELSE [sub EXCEPT !.deletions = IF remove THEN @ \cup {vhd} ELSE @,
                              !.ret = <<>>]

\* toCheck.forEach: an element deleted before it is visited is skipped
RECURSIVE chainLoop(_, _)
chainLoop(st, todo) ==
    IF todo = <<>> \/ st.overflow THEN st
    ELSE IF Head(todo) \notin st.toCheck THEN chainLoop(st, Tail(todo))
    ELSE LET r == getUsedChildChainOrDelete(st, Head(todo), NumDisks)
         IN  chainLoop(IF r.overflow THEN r
                       ELSE [r EXCEPT !.chains = Put(r.chains, Head(todo), r.ret)],
                       Tail(todo))

\* the chain a pending merge state forces
interruptedChain(parent) == <<vhdChildren[parent], parent>>

\* merge interrupted VHDs
RECURSIVE interruptedLoop(_, _)
interruptedLoop(chains, todo) ==
    IF todo = <<>> THEN chains
    ELSE interruptedLoop(Put(chains, Head(todo), interruptedChain(Head(todo))), Tail(todo))

vhdChainsToMerge ==
    LET st == chainLoop([chains |-> <<>>, toCheck |-> unusedVhds, deletions |-> {},
                         overflow |-> FALSE, ret |-> <<>>], Sorted(unusedVhds))
    IN  [st EXCEPT !.chains = interruptedLoop(st.chains, Sorted(interruptedVhds))]

\* Object.values(vhdChainsToMerge) without the undefined chains
definedChains(chains) ==
    LET all == [i \in 1..Len(chains) |-> chains[i][2]]
    IN  SelectSeq(all, LAMBDA c : c # <<>>)

unusedXvaSumsAll == xvaSums

\* the checksum files whose archive is not in xvas
unusedXvaSums == xvaSums \ xvas

ComputeChains ==
    /\ pc = "chains"
    /\ LET st == vhdChainsToMerge
       IN  IF st.overflow
           THEN /\ pc' = "threw"
                /\ UNCHANGED <<toMerge, mergePc, unusedVhdsDeletion, xvaTodo, sumTodo>>
           ELSE /\ pc' = "exec"
                /\ toMerge' = definedChains(st.chains)
                /\ mergePc' = [i \in 1..Len(definedChains(st.chains)) |-> "queued"]
                /\ unusedVhdsDeletion' = st.deletions
                /\ xvaTodo' = IF remove THEN unusedXvas ELSE {}
                /\ sumTodo' = IF remove THEN unusedXvaSums ELSE {}
    /\ UNCHANGED <<storage, flags, runNo, toOpen, graph, meta, metadataWithMergedVhd,
                   sizeTodo, other, calls, fs0>>


\* ---------------------------------------------------------------- mergeVhdChain
\* const parent = chainCopy.shift(); const children = chainCopy
chainParent(chain) == Head(chain)

chainChildrenFront(chain) == SubSeq(chain, 1, Len(chain) - 1)

chainChildren(chain) == Tail(chain)

\* mergeVhd can open every file of the chain
mergeable(chain) ==
    \A i \in 1..Len(chain) :
        openVhd(disk, data, chain[i], ~(i = 1 /\ chain[i] \in markers)) = "ok"

\* mergeVhd, the merge proper: the blocks of the children, oldest first, are
\* written over the blocks of the parent
RECURSIVE foldBlocks(_, _)
foldBlocks(blocks, children) ==
    IF children = <<>> THEN blocks
    ELSE foldBlocks([b \in Blocks |-> IF disk[Head(children)].blocks[b] # 0
                                      THEN disk[Head(children)].blocks[b]
                                      ELSE blocks[b]],
                    Tail(children))

\* mergeVhd, the cleanup: the merged parent takes the path (and the identity) of
\* the last child, the other files of the chain are deleted
cleanupVhds(parent, children) ==
    LET last == children[Len(children)]
    IN  [p \in Disks |->
            IF p = last THEN [disk[parent] EXCEPT !.uuid = disk[last].uuid, !.health = "ok"]
            ELSE IF p = parent \/ p \in Range(children) THEN NoFile
            ELSE disk[p]]

running == {"called", "merging", "merged", "cleaned"}

\* the calls of limitedMergeVhdChain that hold a slot of the limiter
inFlight == Cardinality({i \in 1..Len(mergePc) : mergePc[i] \in running}) + other.running

limiterFreeUnlimited == TRUE

\* limitConcurrency(1): a call starts when fewer than the cap are in flight
limiterFree == inFlight < MergeLimit

\* the limiter starts the calls in the order they were made
StartMerge(i) ==
    /\ pc = "exec"
    /\ i \in 1..Len(toMerge)
    /\ mergePc[i] = "queued"
    /\ \A j \in 1..(i - 1) : mergePc[j] # "queued"
    /\ limiterFree
    /\ mergePc' = [mergePc EXCEPT ![i] = "called"]
    /\ UNCHANGED <<storage, flags, pc, runNo, toOpen, graph, meta, toMerge,
                   unusedVhdsDeletion, xvaTodo, sumTodo, metadataWithMergedVhd, sizeTodo,
                   other, calls, fs0>>

\* mergeVhd opens the chain and writes the merge state; a file it cannot open makes
\* it reject, and with it the invocation
MergeBegin(i) ==
    /\ pc = "exec"
    /\ i \in 1..Len(toMerge)
    /\ mergePc[i] = "called"
    /\ merge
    /\ IF mergeable(toMerge[i])
       THEN /\ markers' = markers \cup {chainParent(toMerge[i])}
            /\ calls' = calls \cup {<<"write", "state", chainParent(toMerge[i])>>}
            /\ mergePc' = [mergePc EXCEPT ![i] = "merging"]
            /\ pc' = pc
       ELSE /\ pc' = "threw"
            /\ UNCHANGED <<markers, calls, mergePc>>
    /\ UNCHANGED <<disk, data, json, xva, xvaSum, flags, runNo, toOpen, graph, meta, toMerge,
                   unusedVhdsDeletion, xvaTodo, sumTodo, metadataWithMergedVhd, sizeTodo,
                   other, fs0>>

MergeBlocks(i) ==
    /\ pc = "exec"
    /\ i \in 1..Len(toMerge)
    /\ mergePc[i] = "merging"
    /\ IF mergeable(toMerge[i])
       THEN /\ disk' = [disk EXCEPT ![chainParent(toMerge[i])] =
                           [@ EXCEPT !.blocks = foldBlocks(@, chainChildren(toMerge[i])),
                                     !.health = "footer2"]]
            /\ calls' = calls \cup {<<"write", "vhd", chainParent(toMerge[i])>>}
            /\ mergePc' = [mergePc EXCEPT ![i] = "merged"]
            /\ pc' = pc
       ELSE /\ pc' = "threw"
            /\ UNCHANGED <<disk, calls, mergePc>>
    /\ UNCHANGED <<data, markers, json, xva, xvaSum, flags, runNo, toOpen, graph, meta,
                   toMerge, unusedVhdsDeletion, xvaTodo, sumTodo, metadataWithMergedVhd,
                   sizeTodo, other, fs0>>

MergeCleanup(i) ==
    /\ pc = "exec"
    /\ i \in 1..Len(toMerge)
    /\ mergePc[i] = "merged"
    /\ IF mergeable(toMerge[i])
       THEN /\ disk' = cleanupVhds(chainParent(toMerge[i]), chainChildren(toMerge[i]))
            /\ calls' = calls \cup
                   {<<"rename", "vhd", chainParent(toMerge[i])>>}
                   \cup UnlinkCalls("vhd", {p \in Range(chainChildren(toMerge[i])) :
                                               p # toMerge[i][Len(toMerge[i])]})
            /\ mergePc' = [mergePc EXCEPT ![i] = "cleaned"]
            /\ pc' = pc
       ELSE /\ pc' = "threw"
            /\ UNCHANGED <<disk, calls, mergePc>>
    /\ UNCHANGED <<data, markers, json, xva, xvaSum, flags, runNo, toOpen, graph, meta,
                   toMerge, unusedVhdsDeletion, xvaTodo, sumTodo, metadataWithMergedVhd,
                   sizeTodo, other, fs0>>

\* the metadata file recorded as merged by doMerge
mergedMetadata(chain) == vhdsToJSons[chain[1]]

\* mergeVhdChain returns: undefined without merge, else after the merge state
\* is removed; doMerge records the metadata of a merged chain
EndMerge(i) ==
    /\ pc = "exec"
    /\ i \in 1..Len(toMerge)
    /\ \/ /\ mergePc[i] = "called"
          /\ ~merge
          /\ UNCHANGED <<markers, calls, metadataWithMergedVhd>>
       \/ /\ mergePc[i] = "cleaned"
          /\ markers' = markers \ {chainParent(toMerge[i])}
          /\ calls' = calls \cup {<<"unlink", "state", chainParent(toMerge[i])>>}
          /\ metadataWithMergedVhd' = metadataWithMergedVhd \cup {mergedMetadata(toMerge[i])}
    /\ mergePc' = [mergePc EXCEPT ![i] = "done"]
    /\ UNCHANGED <<disk, data, json, xva, xvaSum, flags, pc, runNo, toOpen, graph, meta,
                   toMerge, unusedVhdsDeletion, xvaTodo, sumTodo, sizeTodo, other, fs0>>

\* ---------------------------------------------------------------- deletions
\* a VhdAbstract.unlink pushed to unusedVhdsDeletion settles
UnlinkUnusedVhd(path) ==
    /\ pc = "exec"
    /\ path \in unusedVhdsDeletion
    /\ unusedVhdsDeletion' = unusedVhdsDeletion \ {path}
    /\ disk' = UnlinkAll(disk, {path})
    /\ calls' = calls \cup UnlinkCalls("vhd", {path})
    /\ UNCHANGED <<data, markers, json, xva, xvaSum, flags, pc, runNo, toOpen, graph, meta,
                   toMerge, mergePc, xvaTodo, sumTodo, metadataWithMergedVhd, sizeTodo,
                   other, fs0>>

\* handler.unlink of an archive also removes its checksum
UnlinkUnusedXva(path) ==
    /\ pc = "exec"
    /\ path \in xvaTodo
    /\ xvaTodo' = xvaTodo \ {path}
    /\ xva' = xva \ {path}
    /\ xvaSum' = xvaSum \ {path}
    /\ calls' = calls \cup UnlinkCalls("xva", {path})
    /\ UNCHANGED <<disk, data, markers, json, flags, pc, runNo, toOpen, graph, meta,
                   toMerge, mergePc, unusedVhdsDeletion, sumTodo, metadataWithMergedVhd,
                   sizeTodo, other, fs0>>

UnlinkXvaSum(path) ==
    /\ pc = "exec"
    /\ path \in sumTodo
    /\ sumTodo' = sumTodo \ {path}
    /\ xvaSum' = xvaSum \ {path}
    /\ calls' = calls \cup UnlinkCalls("checksum", {path})
    /\ UNCHANGED <<disk, data, markers, json, xva, flags, pc, runNo, toOpen, graph, meta,
                   toMerge, mergePc, unusedVhdsDeletion, xvaTodo, metadataWithMergedVhd,
                   sizeTodo, other, fs0>>

\* Promise.all has settled
ExecDone ==
    /\ pc = "exec"
    /\ unusedVhdsDeletion = {} /\ xvaTodo = {} /\ sumTodo = {}
    /\ \A i \in 1..Len(mergePc) : mergePc[i] = "done"
    /\ sizeTodo' = jsons
    /\ pc' = "sizes"
    /\ UNCHANGED <<storage, flags, runNo, toOpen, graph, meta, toMerge, mergePc,
                   unusedVhdsDeletion, xvaTodo, sumTodo, metadataWithMergedVhd, other,
                   calls, fs0>>


\* ---------------------------------------------------------------- size of the backups
\* a size that is undefined, and the rejection of the computation
NoSize == -1
Throws == -2

\* computeVhdsSize(handler, vhdPaths): undefined unless every disk is a VhdFile
computeVhdsSize(vhdPaths) ==
    IF \E p \in vhdPaths : openVhd(disk, data, p, TRUE) # "ok" THEN Throws
    ELSE IF \E p \in vhdPaths : disk[p].dir THEN NoSize
    ELSE SumOver([p \in Disks |-> SizeOf(disk[p])], vhdPaths)

fileSystemSize(metadata) ==
    IF metadata.mode = "full"
    THEN IF metadata.xva \in xva THEN XvaSize ELSE Throws
    ELSE IF metadata.mode = "delta" THEN computeVhdsSize(metadata.vhds)
    ELSE NoSize

\* whether the stored size is overwritten
shouldUpdateSizeAlways(merged, size, fsSize) == size # fsSize

shouldUpdateSize(merged, size, fsSize) == (merged \/ fixMetadata) /\ size # fsSize

\* the body of the asyncMap over the surviving jsons
ReconcileSize(metadataPath) ==
    /\ pc = "sizes"
    /\ metadataPath \in sizeTodo
    /\ sizeTodo' = sizeTodo \ {metadataPath}
    /\ LET metadata == json[metadataPath]
           merged == metadataPath \in metadataWithMergedVhd
           fsSize == fileSystemSize(metadata)
       IN  IF ~metadata.exists
           THEN /\ pc' = "threw"
                /\ UNCHANGED <<json, calls>>
           ELSE /\ pc' = pc
                /\ IF /\ fsSize # Throws
                      /\ ~(metadata.mode = "delta" /\ fsSize = NoSize)
                      /\ shouldUpdateSize(merged, metadata.size, fsSize)
                   THEN /\ json' = [json EXCEPT ![metadataPath].size = fsSize]
                        /\ calls' = calls \cup {<<"write", "json", metadataPath>>}
                   ELSE UNCHANGED <<json, calls>>
    /\ UNCHANGED <<disk, data, markers, xva, xvaSum, flags, runNo, toOpen, graph, meta,
                   toMerge, mergePc, unusedVhdsDeletion, xvaTodo, sumTodo,
                   metadataWithMergedVhd, other, fs0>>

\* cleanVm returns { merge: toMerge.length !== 0 }
Return ==
    /\ pc = "sizes"
    /\ sizeTodo = {}
    /\ pc' = "done"
    /\ UNCHANGED <<storage, flags, runNo, toOpen, graph, meta, exec, other, calls, fs0>>

summaryMerge == Len(toMerge) # 0

\* ---------------------------------------------------------------- invocations
\* the storage, how the previous invocation ended and the summary it returned
Snapshot(after) ==
    [disk |-> disk, data |-> data, markers |-> markers, json |-> json, xva |-> xva,
     xvaSum |-> xvaSum, after |-> after, summary |-> (pc = "done" /\ summaryMerge)]

NewRun(after) ==
    /\ toOpen' = {} /\ vhds' = {} /\ interruptedVhds' = {}
    /\ vhdParents' = <<>>
    /\ vhdChildren' = [p \in Disks \cup {Gone} |-> Undef]
    /\ vhdById' = [u \in 1..NumDisks |-> Undef]
    /\ jsons' = {} /\ jsonsTodo' = {} /\ xvas' = {} /\ xvaSums' = {}
    /\ unusedVhds' = {} /\ unusedXvas' = {} /\ suspectXvas' = {}
    /\ vhdsToJSons' = [p \in Disks \cup {Gone} |-> Undef]
    /\ toMerge' = <<>> /\ mergePc' = <<>> /\ unusedVhdsDeletion' = {}
    /\ xvaTodo' = {} /\ sumTodo' = {}
    /\ metadataWithMergedVhd' = {} /\ sizeTodo' = {}
    /\ calls' = {}
    /\ fs0' = Snapshot(after)
    /\ pc' = "list"
    /\ runNo' = runNo + 1
    /\ UNCHANGED <<storage, other>>

\* cleanVm is called again on the directory, with the same arguments
Rerun ==
    /\ pc \in {"done", "threw"}
    /\ runNo < MaxRuns
    /\ NewRun(IF pc = "done" THEN "return" ELSE "throw")
    /\ UNCHANGED flags

\* cleanVm is called with remove and merge on the directory that a run with
\* every flag disabled has just audited
Repair ==
    /\ pc = "done"
    /\ ~remove /\ ~merge /\ ~fixMetadata
    /\ runNo < MaxRuns
    /\ NewRun("audit")
    /\ remove' = TRUE /\ merge' = TRUE /\ UNCHANGED fixMetadata

\* the process is killed while mergeVhd is at work, and cleanVm is called again
Crash ==
    /\ pc = "exec"
    /\ \E i \in 1..Len(mergePc) : mergePc[i] \in {"merging", "merged", "cleaned"}
    /\ runNo < MaxRuns
    /\ NewRun("crash")
    /\ UNCHANGED flags

\* ---------------------------------------------------------------- directories
\* the blocks a disk holds: each block holds the id of the disk that wrote it
Content(d) == [b \in Blocks |-> IF d = 1 \/ (d + b) % 2 = 0 THEN d ELSE 0]

PlainDisk(parent, uuid, blocks) ==
    [exists |-> TRUE, parent |-> parent, uuid |-> uuid, blocks |-> blocks,
     health |-> "ok", alias |-> 0, dir |-> FALSE]

NoData == [t \in Targets \cup {NonVhd} |-> FALSE]

DeltaJson(linked, size) ==
    [exists |-> TRUE, mode |-> "delta", vhds |-> linked, xva |-> NoXva, size |-> size]

\* chains: every disk opens, each has any parent; at most one merge state; one
\* delta record with a correct size
GraphDirs ==
    {[disk |-> [d \in Disks |-> PlainDisk(par[d], d, Content(d))],
      data |-> NoData,
      markers |-> mk,
      json |-> [j \in Jsons |->
                   IF j = 1 /\ linked # {}
                   THEN DeltaJson(linked,
                            SumOver([d \in Disks |-> SizeOf([blocks |-> Content(d)])], linked))
                   ELSE NoJson],
      xva |-> {}, xvaSum |-> {}] :
        par \in {f \in [Disks -> 0..Gone] : \A d \in Disks : f[d] # d},
        mk \in {{}} \cup {{d} : d \in Disks},
        linked \in {{}} \cup {{d} : d \in Disks} \cup {Disks}}

\* metadata records and archives: a root disk and its child, two records
MetaRecords ==
    {[exists |-> TRUE, mode |-> "full", vhds |-> {}, xva |-> x, size |-> sz] :
        x \in Xvas \cup {NoXva}, sz \in {0, XvaSize}}
    \cup {DeltaJson(linked, sz) : linked \in {{1}, {2}, {1, Gone}}, sz \in {0, 2}}
    \cup {[exists |-> TRUE, mode |-> m, vhds |-> {}, xva |-> NoXva, size |-> 0] :
             m \in {"bad", "other"}}

MetaDirs ==
    {[disk |-> [d \in Disks |-> IF d = 1 THEN PlainDisk(NoParent, 1, Content(1))
                                ELSE IF d = 2 THEN PlainDisk(1, 2, Content(2))
                                ELSE NoFile],
      data |-> NoData,
      markers |-> {},
      json |-> [j \in Jsons |-> IF j = 1 THEN j1 ELSE IF j = 2 THEN j2 ELSE NoJson],
      xva |-> xv, xvaSum |-> xs] :
        j1 \in MetaRecords,
        j2 \in {NoJson, DeltaJson({2}, 0),
                [exists |-> TRUE, mode |-> "full", vhds |-> {}, xva |-> 1, size |-> XvaSize]},
        xv \in SUBSET Xvas, xs \in SUBSET Xvas}

\* disks that do not open
Healths == {"ok", "broken", "io", "footer2"}

HealthDirs ==
    {[disk |-> [d \in Disks |->
                   IF d = 1 THEN [PlainDisk(NoParent, 1, Content(1)) EXCEPT !.health = h1]
                   ELSE IF d = 2 THEN [PlainDisk(p2, 2, Content(2)) EXCEPT !.health = h2]
                   ELSE NoFile],
      data |-> NoData,
      markers |-> mk,
      json |-> [j \in Jsons |-> IF j = 1 /\ linked # {} THEN DeltaJson(linked, 0)
                                ELSE NoJson],
      xva |-> {}, xvaSum |-> {}] :
        h1 \in Healths, h2 \in Healths, p2 \in {NoParent, 1},
        mk \in {{}, {1}, {2}, {Gone}}, linked \in {{}, {1}, {2}}}

\* two files with the same UUID, both children of disk 3 or not
DupDirs ==
    {[disk |-> [d \in Disks |->
                   IF d = 1 THEN PlainDisk(p1, 1, b1)
                   ELSE IF d = 2 THEN PlainDisk(p2, 1, b2)
                   ELSE IF d = 3 THEN PlainDisk(NoParent, 3, Content(3))
                   ELSE NoFile],
      data |-> NoData,
      markers |-> {},
      json |-> [j \in Jsons |-> IF j = 1 /\ linked # {} THEN DeltaJson(linked, 0)
                                ELSE NoJson],
      xva |-> {}, xvaSum |-> {}] :
        p1 \in {NoParent, 3}, p2 \in {NoParent, 3},
        b1 \in [Blocks -> {0, 1}], b2 \in [Blocks -> {0, 1}],
        linked \in {{}, {1}, {2}}}

\* an alias and its target in the data location
AliasDirs ==
    {[disk |-> [d \in Disks |->
                   IF d = 1 THEN [PlainDisk(NoParent, 1, Content(1))
                                     EXCEPT !.alias = t, !.health = h, !.dir = TRUE]
                   ELSE IF d = 2 /\ second THEN PlainDisk(NoParent, 2, Content(2))
                   ELSE NoFile],
      data |-> [x \in Targets \cup {NonVhd} |-> x = NonVhd \/ present],
      markers |-> {},
      json |-> [j \in Jsons |-> IF j = 1 /\ linked # {} THEN DeltaJson(linked, 0)
                                ELSE NoJson],
      xva |-> {}, xvaSum |-> {}] :
        t \in {1, NonVhd}, h \in {"ok", "broken", "io"}, present \in BOOLEAN,
        second \in BOOLEAN, linked \in {{}, {1}}}

\* cycles of parent pointers
CycleDirs ==
    {[disk |-> [d \in Disks |->
                   IF d = 1 THEN PlainDisk(p1, 1, Content(1))
                   ELSE IF d = 2 THEN PlainDisk(p2, 2, Content(2))
                   ELSE IF d = 3 THEN PlainDisk(p3, 3, Content(3))
                   ELSE NoFile],
      data |-> NoData,
      markers |-> {},
      json |-> [j \in Jsons |-> IF j = 1 /\ linked # {} THEN DeltaJson(linked, 0)
                                ELSE NoJson],
      xva |-> {}, xvaSum |-> {}] :
        p1 \in {1, 2}, p2 \in {NoParent, 1, 2}, p3 \in {NoParent, 1},
        linked \in {{}, {1}, {3}}}

Directories == GraphDirs \cup MetaDirs \cup HealthDirs \cup DupDirs \cup AliasDirs \cup CycleDirs

Idle == [queued |-> 0, running |-> 0, done |-> 0]

InitWith(dirs) ==
    /\ \E dir \in dirs :
        /\ disk = dir.disk /\ data = dir.data /\ markers = dir.markers
        /\ json = dir.json /\ xva = dir.xva /\ xvaSum = dir.xvaSum
        /\ fs0 = [disk |-> dir.disk, data |-> dir.data, markers |-> dir.markers,
                  json |-> dir.json, xva |-> dir.xva, xvaSum |-> dir.xvaSum,
                  after |-> "start", summary |-> FALSE]
    /\ remove \in BOOLEAN /\ merge \in BOOLEAN /\ fixMetadata \in BOOLEAN
    /\ pc = "list"
    /\ runNo = 1
    /\ other = Idle
    /\ EmptyRun

Init == InitWith(Directories)

\* ---------------------------------------------------------------- other invocations
\* another invocation of cleanVm calls limitedMergeVhdChain: the default limiter is
\* one for all invocations
OtherCall ==
    /\ other.queued + other.running + other.done < MaxOther
    /\ other' = [other EXCEPT !.queued = @ + 1]
    /\ UNCHANGED <<storage, flags, pc, runNo, toOpen, graph, meta, exec, calls, fs0>>

OtherStart ==
    /\ other.queued > 0
    /\ limiterFree
    /\ other' = [other EXCEPT !.queued = @ - 1, !.running = @ + 1]
    /\ UNCHANGED <<storage, flags, pc, runNo, toOpen, graph, meta, exec, calls, fs0>>

OtherEnd ==
    /\ other.running > 0
    /\ other' = [other EXCEPT !.running = @ - 1, !.done = @ + 1]
    /\ UNCHANGED <<storage, flags, pc, runNo, toOpen, graph, meta, exec, calls, fs0>>

Next ==
    \/ ListVhds
    \/ \E path \in Disks : CheckVhd(path)
    \/ CheckDone
    \/ RemoveOrphanMergeStates
    \/ CheckAliases
    \/ RemoveOrphans
    \/ ListEntries
    \/ \E j \in Jsons : CheckMetadata(j)
    \/ CheckMetadataDone
    \/ ComputeChains
    \/ \E i \in 1..NumDisks : StartMerge(i)
    \/ \E i \in 1..NumDisks : MergeBegin(i)
    \/ \E i \in 1..NumDisks : MergeBlocks(i)
    \/ \E i \in 1..NumDisks : MergeCleanup(i)
    \/ \E i \in 1..NumDisks : EndMerge(i)
    \/ \E path \in Disks : UnlinkUnusedVhd(path)
    \/ \E path \in Xvas : UnlinkUnusedXva(path)
    \/ \E path \in Xvas : UnlinkXvaSum(path)
    \/ ExecDone
    \/ \E j \in Jsons : ReconcileSize(j)
    \/ Return
    \/ Rerun
    \/ Repair
    \/ Crash

Spec == Init /\ [][Next]_vars

\* a directory of each kind, with other invocations at work
SharedDirs ==
    {dir \in GraphDirs :
        /\ dir.disk[1].parent = NoParent /\ dir.disk[2].parent = 1
        /\ dir.disk[3].parent = NoParent
        /\ dir.markers = {3} /\ dir.json[1].vhds = {2}}
    \cup {dir \in MetaDirs :
             /\ dir.json[1].mode = "delta" /\ dir.json[1].vhds = {2} /\ dir.json[1].size = 0
             /\ dir.json[2] = NoJson /\ dir.xvaSum = Xvas}

InitShared == InitWith(SharedDirs)

NextShared == Next \/ OtherCall \/ OtherStart \/ OtherEnd

SpecShared == InitShared /\ [][NextShared]_vars

\* ================================================================ properties
\* the storage is as it was when the invocation started
Untouched ==
    /\ disk = fs0.disk /\ data = fs0.data /\ markers = fs0.markers
    /\ json = fs0.json /\ xva = fs0.xva /\ xvaSum = fs0.xvaSum

\* C1, as stated: with remove disabled the invocation is read-only whatever merge
\* and fixMetadata are: it issues no call that deletes, writes or renames, and the
\* files and their contents are the same after the run as before
C1_ReadOnlyWithoutRemove == ~remove => (calls = {} /\ Untouched)

\* C1, amended: with remove, merge and fixMetadata all disabled the invocation
\* issues no call that deletes, writes or renames, and the files and their
\* contents stay as they were when the run started
C1_ReadOnlyWithoutFlags == (~remove /\ ~merge /\ ~fixMetadata) => (calls = {} /\ Untouched)

\* C1: a run with the three flags disabled has returned, having dropped a disk
\* from the active set, found a chain to merge and a stored size that is wrong
C1_Witness ==
    /\ pc = "done" /\ ~remove /\ ~merge /\ ~fixMetadata
    /\ \E p \in Disks : fs0.disk[p].exists /\ p \notin vhds
    /\ Len(toMerge) > 0
    /\ \E j \in jsons : fileSystemSize(json[j]) >= 0 /\ json[j].size # fileSystemSize(json[j])

\* C2, as stated: a disk that a surviving delta record references is never
\* unlinked, and in a chain of the merge set it is only ever the last element
C2_ReferencedDiskSurvives ==
    \A d \in Disks :
        vhdsToJSons[d] # Undef =>
            /\ <<"unlink", "vhd", d>> \notin calls
            /\ \A i \in 1..Len(toMerge) :
                   \A k \in 1..Len(toMerge[i]) :
                       toMerge[i][k] = d => k = Len(toMerge[i])

\* C3: at any moment at most one call of mergeVhdChain is in flight, the calls of
\* the other invocations that share the default limiter included
C3_OneMergeInFlight == inFlight <= MergeLimit

\* C3: a merge of this invocation is in flight while another of its chains and a
\* call of another invocation wait for the limiter
C3_Witness ==
    /\ \E i \in 1..Len(mergePc) : mergePc[i] \in {"merging", "merged"}
    /\ \E i \in 1..Len(mergePc) : mergePc[i] = "queued"
    /\ other.queued > 0
    /\ other.done > 0

\* the disks the current invocation could open when it checked them
Opened(d) == openVhd(fs0.disk, fs0.data, d, d \notin fs0.markers) = "ok"

\* the differencing disks the current invocation registered with their parent
Registered(d) == Opened(d) /\ fs0.disk[d].parent # NoParent

\* the most recently written version of each block across a chain, oldest first,
\* as the disks were when the invocation started
RECURSIVE Newest(_)
Newest(chain) ==
    IF Len(chain) = 1 THEN fs0.disk[chain[1]].blocks
    ELSE LET last == fs0.disk[chain[Len(chain)]].blocks
             rest == Newest(SubSeq(chain, 1, Len(chain) - 1))
         IN  [b \in Blocks |-> IF last[b] # 0 THEN last[b] ELSE rest[b]]

\* C4, as stated: every disk of the active set with a pending merge state forces
\* the chain [its recorded child, itself] into the merge set; and when the disk is
\* an unreferenced ancestor and its child is the only disk of a metadata record,
\* after a run with remove and merge the ancestor and the merge state are gone, the
\* child's path holds the merged content and the record's size matches it
C4_MarkerChainMergedIntoChild ==
    /\ pc \in {"exec", "sizes", "done"} =>
           \A p \in interruptedVhds :
               \E i \in 1..Len(toMerge) : toMerge[i] = <<vhdChildren[p], p>>
    /\ (pc = "done" /\ remove /\ merge) =>
           \A p \in interruptedVhds :
               LET c == vhdChildren[p]
               IN  (/\ c \in Disks /\ c \in vhds /\ c # p
                    /\ fs0.disk[p].parent = NoParent
                    /\ vhdsToJSons[p] = Undef
                    /\ vhdsToJSons[c] # Undef
                    /\ json[vhdsToJSons[c]].vhds = {c}
                    /\ \A q \in Disks \ {p, c} : ~fs0.disk[q].exists)
                   => /\ ~disk[p].exists
                      /\ p \notin markers
                      /\ disk[c].exists
                      /\ disk[c].blocks = Newest(<<p, c>>)
                      /\ json[vhdsToJSons[c]].size = SizeOf(disk[c])

\* C5, as stated: the merge state is there from before the merge starts until the
\* cleanup is over; the run that follows an interrupted one has the disk of every
\* merge state it finds in a chain of its merge set, and with merge it completes
\* the merge: when it returns that merge state is gone
C5_InterruptedMergeResumed ==
    /\ \A i \in 1..Len(mergePc) :
           mergePc[i] \in {"merging", "merged", "cleaned"} =>
               chainParent(toMerge[i]) \in markers
    /\ (fs0.after = "crash" /\ pc \in {"exec", "sizes", "done"}) =>
           \A p \in fs0.markers \cap vhds :
               \E i \in 1..Len(toMerge) : p \in Range(toMerge[i])
    /\ (fs0.after = "crash" /\ pc = "done" /\ merge) =>
           \A p \in fs0.markers \cap vhds : p \notin markers

\* C6: when mergeVhdChain has merged a chain [A, B, C] with merge enabled and
\* cleaned up, the paths of A and B hold no file, the path of C holds one, and
\* every block of it is the most recently written version of that block across A,
\* B and C
C6_ChainMergedIntoLastPath ==
    \A i \in 1..Len(toMerge) :
        (merge /\ Len(toMerge[i]) = 3 /\ mergePc[i] = "cleaned") =>
            LET chain == toMerge[i]
            IN  /\ ~disk[chain[1]].exists
                /\ ~disk[chain[2]].exists
                /\ disk[chain[3]].exists
                /\ disk[chain[3]].blocks = Newest(chain)

\* C6: a chain of three disks has been merged and cleaned up, and the result is
\* the content of neither its first nor its last disk alone
C6_Witness ==
    \E i \in 1..Len(toMerge) :
        /\ merge /\ Len(toMerge[i]) = 3 /\ mergePc[i] = "cleaned"
        /\ fs0.disk[toMerge[i][3]].blocks # Newest(toMerge[i])
        /\ fs0.disk[toMerge[i][1]].blocks # Newest(toMerge[i])
        /\ disk[toMerge[i][3]].blocks = Newest(toMerge[i])

\* C7, as stated: the run that follows a complete run with remove and merge, with
\* the same flags, issues no call that deletes, writes or renames, and its merge
\* set is empty
C7_SecondRunChangesNothing ==
    (runNo > 1 /\ fs0.after = "return" /\ remove /\ merge) =>
        (calls = {} /\ toMerge = <<>>)

\* C8, as stated: once the orphans are pruned, no registered differencing disk whose parent is
\* outside the active set is in the active set, and with remove none is on the
\* storage; and no step, of this run or of a later one, creates a disk at a path
\* that holds none
C8_OrphansPrunedTransitively ==
    /\ [](pc \in {"entries", "metadata", "chains", "exec", "sizes", "done"} =>
             \A d \in Disks :
                 (Registered(d) /\ fs0.disk[d].parent \notin vhds) =>
                     (d \notin vhds /\ (remove => ~disk[d].exists)))
    /\ [][\A d \in Disks : ~disk[d].exists => ~disk'[d].exists]_vars

\* C9, as stated: of two disks that alone share a UUID, when every disk has been
\* opened the one whose content strictly contains the other's is in the active set
\* and the other is not, in whichever order they were opened; when neither
\* contains the other both are in the active set
C9_SupersetKept ==
    pc = "states" =>
        \A x, y \in Disks :
            (/\ x # y /\ Opened(x) /\ Opened(y)
             /\ fs0.disk[x].uuid = fs0.disk[y].uuid
             /\ \A z \in Disks \ {x, y} :
                    fs0.disk[z].exists => fs0.disk[z].uuid # fs0.disk[x].uuid)
            => /\ (/\ containsAllDataOf(fs0.disk[x], fs0.disk[y])
                   /\ ~containsAllDataOf(fs0.disk[y], fs0.disk[x]))
                  => (x \in vhds /\ y \notin vhds)
               /\ (/\ ~containsAllDataOf(fs0.disk[x], fs0.disk[y])
                   /\ ~containsAllDataOf(fs0.disk[y], fs0.disk[x]))
                  => (x \in vhds /\ y \in vhds)

\* C10, as stated: when the run returns, the stored size of every surviving delta
\* record with a disk in a chain merged by this run is the sum of the sizes of its
\* disks, whatever fixMetadata
C10_MergedRecordSizeOverwritten ==
    pc = "done" =>
        \A j \in jsons :
            (/\ json[j].exists /\ json[j].mode = "delta"
             /\ \E i \in 1..Len(toMerge) :
                    /\ merge /\ mergePc[i] = "done"
                    /\ json[j].vhds \cap Range(toMerge[i]) # {}
             /\ computeVhdsSize(json[j].vhds) # NoSize)
            => json[j].size = computeVhdsSize(json[j].vhds)

\* a disk of the record is in a chain that this run has merged
DiskMerged(j) ==
    \E i \in 1..Len(toMerge) :
        /\ merge /\ mergePc[i] = "done"
        /\ json[j].vhds \cap Range(toMerge[i]) # {}

\* C11: when the run returns, for every surviving record none of whose disks was
\* merged: without fixMetadata the metadata file is as it was and was not written;
\* with fixMetadata its stored size is the recomputed size, when there is one; a
\* delta record whose size is not computed was not written; and a metadata file
\* that was written differs from what it was in its size only
C11_SizeReconciledOnRequestOnly ==
    pc = "done" =>
        \A j \in jsons :
            (json[j].exists /\ ~DiskMerged(j)) =>
                /\ ~fixMetadata =>
                       (json[j] = fs0.json[j] /\ <<"write", "json", j>> \notin calls)
                /\ (fixMetadata /\ fileSystemSize(json[j]) >= 0) =>
                       json[j].size = fileSystemSize(json[j])
                /\ (json[j].mode = "delta" /\ fileSystemSize(json[j]) = NoSize) =>
                       (json[j] = fs0.json[j] /\ <<"write", "json", j>> \notin calls)
                /\ json[j] = [fs0.json[j] EXCEPT !.size = json[j].size]

\* C11: a run with fixMetadata has returned having rewritten the size of a record
\* none of whose disks was merged, while it merged a chain
C11_Witness ==
    /\ pc = "done" /\ fixMetadata
    /\ \E j \in jsons :
           /\ json[j].exists /\ ~DiskMerged(j)
           /\ <<"write", "json", j>> \in calls
           /\ json[j].size # fs0.json[j].size
           /\ json[j].size = fileSystemSize(json[j])

\* C12, as stated: whatever the directory holds, no invocation fails: none rejects
\* instead of returning its summary, and the chain computation never exhausts the
\* stack
C12_InvocationNeverFails == pc # "threw"

\* C13, as stated: the summary that a run with remove and merge returns has the
\* merge field of the summary that the run with every flag disabled returned for
\* the same directory just before
C13_SummarySameWithFlags ==
    (fs0.after = "audit" /\ pc = "done") => (summaryMerge <=> fs0.summary)

\* C14, as stated: when every disk has been opened, two readable differencing
\* disks that name the same parent, each alone with its UUID, are both in the
\* active set, and neither has been unlinked
C14_ConflictKeepsBothChildren ==
    pc = "states" =>
        \A x, y \in Disks :
            (/\ x # y /\ Registered(x) /\ Registered(y)
             /\ fs0.disk[x].parent = fs0.disk[y].parent
             /\ \A z \in Disks :
                    (fs0.disk[z].exists /\ fs0.disk[z].uuid \in {fs0.disk[x].uuid,
                                                                fs0.disk[y].uuid})
                        => z \in {x, y}
             /\ fs0.disk[x].uuid # fs0.disk[y].uuid)
            => /\ x \in vhds /\ y \in vhds
               /\ disk[x].exists /\ disk[y].exists

\* how the open of a disk by the current invocation ends
OpenResult(d) == openVhd(fs0.disk, fs0.data, d, d \notin fs0.markers)

\* C15, as stated: a disk whose open fails, structurally or with an I/O error, is
\* out of the active set once the disks are opened; its file is gone only if the
\* failure was structural and remove is set; and after an I/O error the file, and
\* the data an alias names, stay as they were
C15_OpenFailureLeavesFile ==
    \A d \in Disks :
        (fs0.disk[d].exists /\ OpenResult(d) \in {"assert", "io"}) =>
            /\ pc \notin {"list", "check"} => d \notin vhds
            /\ ~disk[d].exists => (OpenResult(d) = "assert" /\ remove)
            /\ OpenResult(d) = "io" =>
                   /\ disk[d] = fs0.disk[d]
                   /\ fs0.disk[d].alias # 0 => data[fs0.disk[d].alias] = fs0.data[fs0.disk[d].alias]

\* C16, as stated: once the metadata records are examined in a run with remove,
\* a metadata file that cannot be parsed has been unlinked and is off the storage
C16_UnparsableMetadataDeleted ==
    (remove /\ pc \in {"chains", "exec", "sizes", "done"}) =>
        \A j \in Jsons :
            (fs0.json[j].exists /\ fs0.json[j].mode = "bad") =>
                (~json[j].exists /\ <<"unlink", "json", j>> \in calls)

\* the record misses its archive, or a disk of the surviving active set
Incomplete(j) ==
    /\ fs0.json[j].exists
    /\ \/ fs0.json[j].mode = "full" /\ fs0.json[j].xva \notin xvas
       \/ fs0.json[j].mode = "delta" /\ fs0.json[j].vhds \ vhds # {}

\* C17: once the metadata records are examined, the file of an incomplete record
\* is unlinked if and only if remove is set, the record survives in the run
\* otherwise, and a disk of the active set that only incomplete records reference
\* is in the unused set
C17_IncompleteRecordUsesNothing ==
    pc \in {"chains", "exec", "sizes", "done"} =>
        \A j \in Jsons :
            Incomplete(j) =>
                /\ ~json[j].exists <=> remove
                /\ <<"unlink", "json", j>> \in calls <=> remove
                /\ j \in jsons <=> ~remove
                /\ \A d \in fs0.json[j].vhds \cap vhds :
                       (\A k \in Jsons : d \in fs0.json[k].vhds => Incomplete(k))
                           => d \in unusedVhds

\* C17: a repair run has returned having deleted a delta record that misses one
\* disk, whose other disk was in the active set and was left unused
C17_Witness ==
    /\ pc = "done" /\ remove
    /\ \E j \in Jsons :
           /\ Incomplete(j) /\ fs0.json[j].mode = "delta"
           /\ ~json[j].exists
           /\ \E d \in fs0.json[j].vhds : d \in vhds /\ d \in unusedVhds

\* the chains of lines 394-429, before the pending merge states are looked at
usageChains ==
    chainLoop([chains |-> <<>>, toCheck |-> unusedVhds, deletions |-> {},
               overflow |-> FALSE, ret |-> <<>>], Sorted(unusedVhds))

\* the used disk of the active set that the child pointers lead to from d through
\* unused disks only, Undef when there is none
RECURSIVE UsedDescendant(_, _)
UsedDescendant(d, fuel) ==
    LET child == vhdChildren[d]
    IN  IF fuel = 0 \/ child = Undef THEN Undef
        ELSE IF child \in unusedVhds THEN UsedDescendant(child, fuel - 1)
        ELSE IF child \in vhds THEN child
        ELSE Undef

\* the usage-derived chains that are not undefined
UsageDerived == IF usageChains.overflow THEN <<>> ELSE definedChains(usageChains.chains)

C19_ChainsShareNoDisk ==
    \A i, k \in 1..Len(toMerge) :
        i # k => (Range(toMerge[i]) \cap Range(toMerge[k])) \ {Undef} = {}

\* C20, as stated: every chain handed to the merge executor has at least two
\* elements, each of them the path of a disk of the active set, and each element
\* after the first names the element before it as its parent in the header it had
\* when the run began
C20_ChainsWellFormed ==
    \A i \in 1..Len(toMerge) :
        LET chain == toMerge[i]
        IN  /\ Len(chain) >= 2
            /\ \A k \in 1..Len(chain) : chain[k] \in vhds
            /\ \A k \in 2..Len(chain) :
                   /\ chain[k] \in Disks
                   /\ fs0.disk[chain[k]].parent = chain[k - 1]

\* the alias validator could open the target of alias a
TargetOpens(a) == openVhd(disk, data, a, TRUE) = "ok"

\* C21, as stated: a step of alias validation that finds a target which looks like
\* a disk but cannot be opened deletes the alias if and only if remove is set and
\* leaves the target as it was, also in its pass over the data location; a target
\* that it opened is left as it was, and so is its alias
C21_AliasValidatorSparesTarget ==
    [][(pc = "aliases" /\ pc' = "orphans") =>
          \A a \in aliases :
              LET target == disk[a].alias
              IN  (disk[a].exists /\ target # NonVhd) =>
                      /\ data'[target] = data[target]
                      /\ TargetOpens(a) => disk'[a] = disk[a]
                      /\ ~TargetOpens(a) => (~disk'[a].exists <=> remove)]_vars

\* a metadata record that parses in full mode references archive x
FullRecordOf(x) ==
    \E j \in Jsons : /\ fs0.json[j].exists /\ fs0.json[j].mode = "full"
                     /\ fs0.json[j].xva = x

\* the run has deleted archive x, or the checksum file of archive x
ArchiveDeleted(x) == x \in fs0.xva /\ x \notin xva
ChecksumDeleted(x) == x \in fs0.xvaSum /\ x \notin xvaSum

\* C22, as stated: an archive is deleted only if remove is set and no record parsed
\* in full mode references it, and a checksum file is deleted only if remove is
\* set and its archive is not among the scanned archives
C22_ChecksumDeletedOnlyWithoutArchive ==
    \A x \in Xvas :
        /\ ArchiveDeleted(x) => (remove /\ ~FullRecordOf(x))
        /\ ChecksumDeleted(x) => (remove /\ x \notin fs0.xva)

\* C22, amended: an archive is deleted only if remove is set and no record parsed
\* in full mode references it, whether or not the validity probe reported it; a
\* checksum file is deleted only if remove is set and its archive either is not
\* among the scanned archives or is deleted by the same run as unused
C22_ArchiveDeletedOnlyUnreferenced ==
    \A x \in Xvas :
        /\ ArchiveDeleted(x) =>
               (remove /\ ~FullRecordOf(x) /\ <<"unlink", "xva", x>> \in calls)
        /\ (x \in suspectXvas /\ FullRecordOf(x)) => x \in xva
        /\ ChecksumDeleted(x) =>
               /\ remove
               /\ \/ x \notin fs0.xva /\ <<"unlink", "checksum", x>> \in calls
                  \/ ArchiveDeleted(x)

\* C22: a repair run has returned having deleted an unreferenced archive, which
\* the validity probe had reported, together with its checksum file
C22_Witness ==
    /\ pc = "done" /\ remove
    /\ \E x \in Xvas :
           /\ x \in suspectXvas /\ ~FullRecordOf(x)
           /\ ArchiveDeleted(x) /\ ChecksumDeleted(x)

\* the parent map has a cycle of parent pointers
RECURSIVE ReachesItself(_, _, _)
ReachesItself(d, from, n) ==
    /\ n > 0 /\ HasKey(vhdParents, from)
    /\ \/ Get(vhdParents, from) = d
       \/ ReachesItself(d, Get(vhdParents, from), n - 1)

CyclicParents == \E d \in Disks : ReachesItself(d, d, NumDisks)

\* C23: when the orphan walk is about to run, whatever the parent map, it ends
\* without exhausting the stack, and it gets past the early return at most once
\* for each disk
C23_OrphanWalkVisitsOnce ==
    pc = "orphans" =>
        LET st == orphanWalk([i \in 1..Len(vhdParents) |-> vhdParents[i][1]])
        IN  /\ ~st.overflow
            /\ \A d \in Disks : st.visits[d] <= 1
            /\ \A d \in Disks : st.visits[d] = 1 <=> HasKey(vhdParents, d)
            /\ st.vhdParents = <<>>

\* C23: the orphan walk is about to run over a parent map that has a cycle, and
\* it ends having visited the disks of the cycle
C23_Witness ==
    /\ pc = "orphans" /\ CyclicParents
    /\ LET st == orphanWalk([i \in 1..Len(vhdParents) |-> vhdParents[i][1]])
       IN  /\ ~st.overflow
           /\ \E d \in Disks : ReachesItself(d, d, NumDisks) /\ st.visits[d] = 1

\* the orders in which the keys of the parent map can be iterated
KeyOrders ==
    {o \in [1..Len(vhdParents) -> Keys(vhdParents)] :
        \A i, k \in 1..Len(vhdParents) : i # k => o[i] # o[k]}

\* C24, as stated: when the orphan walk is about to run, every order of iteration
\* over the parent map removes the same disks from the active set and unlinks the
\* same files
C24_OrphanWalkOrderIndependent ==
    pc = "orphans" =>
        \A o1, o2 \in KeyOrders :
            /\ orphanWalk(o1).vhds = orphanWalk(o2).vhds
            /\ orphanWalk(o1).deletions = orphanWalk(o2).deletions

\* C25, as stated: no disk whose deletion as unused is pending is a member of a
\* chain of the merge set of the same run
C25_NoDeletionOfChainMember ==
    \A i \in 1..Len(toMerge) : Range(toMerge[i]) \cap unusedVhdsDeletion = {}

\* C26, as stated: while the metadata records are examined and when the chains
\* are computed, every path of the active set is the path of a file that exists
C26_ActiveSetOnStorage ==
    pc \in {"metadata", "chains"} => \A d \in vhds : disk[d].exists

====
